---- MODULE Spec2Model ----
(***************************************************************************)
(* minigrep: the line-scanning match/highlight engine (search) and the     *)
(* interactive pager (paginate / render_page) driven by run.               *)
(*                                                                         *)
(* Text is modelled as a sequence of UTF-8 bytes.  One-byte characters are *)
(* one element ("a", "A", "i", " ", "NL").  U+0130 (capital I with dot     *)
(* above) is the two bytes "I0" "I1"; its lowercase is "i" followed by     *)
(* U+0307, the two bytes "d0" "d1".  The SGR sequences the colored crate   *)
(* writes around a red bold span are the elements "SGR_ON" and "SGR_OFF".  *)
(***************************************************************************)
EXTENDS Integers, Sequences, FiniteSets, TLC

VARIABLES
    args,            \* main's args: program name, then the command-line arguments
    env,             \* names of the environment variables that are set
    exitCode,        \* the process exit code, -1 while the process runs
    stderr,          \* diagnostics written to the error stream
    io,              \* the last two operations of paginate on the event stream and the screen
    contents,        \* bytes of the file that run reads
    config,          \* Config: query, ignore_case, no_color, line_number, stats
    width,           \* paginate's width (terminal columns)
    pc,              \* position of the program
    sr,              \* what search returned (results, found_indexes, counts)
    out,             \* what run printed to standard output, in order
    term,            \* terminal: raw mode, alternate screen, cursor
    page_height,     \* paginate's page_height
    current_offset,  \* paginate's current_offset
    frame,           \* what the last render_page call drew
    lastEvent,       \* the event the loop consumed last
    exitPath,        \* how paginate / run ended
    downRun          \* Down-class events consumed in a row since offset 0; -1 otherwise

vars == <<args, env, exitCode, stderr, io, contents, config, width, pc, sr, out,
          term, page_height, current_offset, frame, lastEvent, exitPath, downRun>>

\* what only main touches
mainVars == <<args, env, exitCode, stderr>>

\* ------------------------------------------------------------------ bounds
MaxLen == 4
MaxQueryLen == 2
MaxLines == 10
MaxHeight == 8
MaxWidth == 2
MaxDownRun == 3
MaxFlags == 2

\* ------------------------------------------------------------------ text
Min(a, b) == IF a < b THEN a ELSE b
Max(a, b) == IF a > b THEN a ELSE b

\* usize::saturating_sub
SaturatingSub(a, b) == IF a > b THEN a - b ELSE 0

Chars == {"a", "A", "I_dot", " ", "NL"}
QueryChars == {"a", "A", " "}

\* UTF-8 encoding of one character
Encode(c) == IF c = "I_dot" THEN <<"I0", "I1">> ELSE <<c>>

RECURSIVE EncodeAll(_)
EncodeAll(cs) ==
    IF cs = <<>> THEN <<>> ELSE Encode(Head(cs)) \o EncodeAll(Tail(cs))

\* continuation bytes: a slice may not start or end in front of one
Continuation == {"I1", "d1"}
Whitespace == {" ", "NL"}

CharSeqs(S, n) == UNION {[1..k -> S] : k \in 0..n}

\* str::to_lowercase
RECURSIVE ToLowercase(_)
ToLowercase(s) ==
    IF s = <<>> THEN <<>>
    ELSE IF s[1] = "A" THEN <<"a">> \o ToLowercase(Tail(s))
    ELSE IF s[1] = "I0" THEN <<"i", "d0", "d1">> \o ToLowercase(Tail(Tail(s)))
    ELSE <<s[1]>> \o ToLowercase(Tail(s))

conditional_lowercase(s, ignore_case) ==
    IF ignore_case THEN ToLowercase(s) ELSE s

\* str::find: byte offset (0-based) of the first occurrence, -1 for None
Find(h, q) ==
    LET hits == {p \in 0..(Len(h) - Len(q)) : SubSeq(h, p + 1, p + Len(q)) = q}
    IN  IF hits = {} THEN -1 ELSE CHOOSE p \in hits : \A r \in hits : p <= r

\* str::contains
StrContains(h, q) == Find(h, q) # -1

\* str::lines: pieces between "NL"; a final empty piece is not a line
RECURSIVE SplitNL(_, _)
SplitNL(s, cur) ==
    IF s = <<>> THEN <<cur>>
    ELSE IF s[1] = "NL" THEN <<cur>> \o SplitNL(Tail(s), <<>>)
    ELSE SplitNL(Tail(s), Append(cur, s[1]))

StrLines(s) ==
    LET pieces == SplitNL(s, <<>>)
    IN  IF pieces[Len(pieces)] = <<>> THEN SubSeq(pieces, 1, Len(pieces) - 1)
        ELSE pieces

\* str::split_whitespace: the maximal runs of non-whitespace bytes
RECURSIVE SplitWs(_, _)
SplitWs(s, cur) ==
    IF s = <<>> THEN (IF cur = <<>> THEN <<>> ELSE <<cur>>)
    ELSE IF s[1] \in Whitespace
         THEN (IF cur = <<>> THEN <<>> ELSE <<cur>>) \o SplitWs(Tail(s), <<>>)
         ELSE SplitWs(Tail(s), Append(cur, s[1]))

SplitWhitespace(s) == SplitWs(s, <<>>)

\* [String]::join(" ")
RECURSIVE JoinSpace(_)
JoinSpace(ts) ==
    IF ts = <<>> THEN <<>>
    ELSE IF Len(ts) = 1 THEN ts[1]
    ELSE ts[1] \o <<" ">> \o JoinSpace(Tail(ts))

\* str::is_char_boundary
IsCharBoundary(s, i) ==
    \/ i = 0
    \/ i = Len(s)
    \/ i < Len(s) /\ s[i + 1] \notin Continuation

\* &s[from..to] is defined (does not panic)
SliceOk(s, from, to) ==
    from <= to /\ to <= Len(s) /\ IsCharBoundary(s, from) /\ IsCharBoundary(s, to)

\* matched.red().bold()
RedBold(s) == <<"SGR_ON">> \o s \o <<"SGR_OFF">>

\* ------------------------------------------------------------------ search
\* faulty variant: the three pieces are cut from the lowered token, not the original
HighlightTokenFromLowered(original, lowered, query, no_color) ==
    LET pos == Find(lowered, query)
        n   == Len(query)
    IN  IF pos = -1 THEN [text |-> original, hits |-> 0, panic |-> FALSE]
        ELSE [text |-> SubSeq(lowered, 1, pos)
                       \o (IF no_color THEN SubSeq(lowered, pos + 1, pos + n)
                           ELSE RedBold(SubSeq(lowered, pos + 1, pos + n)))
                       \o SubSeq(lowered, pos + n + 1, Len(lowered)),
              hits |-> 1, panic |-> FALSE]

\* the closure mapped over the zipped token pairs: find the query in the
\* lowered token, cut the ORIGINAL token at that byte offset and length
highlight_token(original, lowered, query, no_color) ==
    LET pos == Find(lowered, query)
        n   == Len(query)
    IN  IF pos = -1 THEN [text |-> original, hits |-> 0, panic |-> FALSE]
        ELSE IF ~(/\ SliceOk(original, 0, pos)
                  /\ SliceOk(original, pos, pos + n)
                  /\ SliceOk(original, pos + n, Len(original)))
        THEN [text |-> <<>>, hits |-> 1, panic |-> TRUE]
        ELSE LET before  == SubSeq(original, 1, pos)
                 matched == SubSeq(original, pos + 1, pos + n)
                 after   == SubSeq(original, pos + n + 1, Len(original))
             IN  [text |-> before
                           \o (IF no_color THEN matched ELSE RedBold(matched))
                           \o after,
                  hits |-> 1, panic |-> FALSE]

\* split_whitespace().zip(split_whitespace()).map(..).collect().join(" ")
highlight_line(line, haystack, query, no_color) ==
    LET os  == SplitWhitespace(line)
        ls  == SplitWhitespace(haystack)
        n   == Min(Len(os), Len(ls))
        tok == [k \in 1..n |-> highlight_token(os[k], ls[k], query, no_color)]
        RECURSIVE Hits(_)
        Hits(k) == IF k = 0 THEN 0 ELSE tok[k].hits + Hits(k - 1)
    IN  [text  |-> JoinSpace([k \in 1..n |-> tok[k].text]),
         hits  |-> Hits(n),
         panic |-> \E k \in 1..n : tok[k].panic]

\* faulty variant: the index pushed is 1-based
PushIndexOneBased(found, index) == Append(found, index + 1)

\* found_indexes.push(index)
PushIndex(found, index) == Append(found, index)

\* faulty variant: the line counter is left alone
CountLineNot(n) == n

\* scanned_lines += 1
CountLine(n) == n + 1

NoSearch ==
    [results |-> <<>>, found_indexes |-> <<>>, scanned_lines |-> 0,
     matched_words |-> 0, panicked |-> FALSE]

\* the filter_map closure applied to lines[k..], index = k - 1 (0-based)
RECURSIVE SearchFrom(_, _, _, _, _)
SearchFrom(lines, k, query, cfg, acc) ==
    IF k > Len(lines) THEN acc
    ELSE LET line     == lines[k]
             haystack == conditional_lowercase(line, cfg.ignore_case)
             scanned  == CountLine(acc.scanned_lines)
         IN  IF StrContains(haystack, query)
             THEN LET hl == highlight_line(line, haystack, query, cfg.no_color)
                  IN  IF hl.panic THEN [NoSearch EXCEPT !.panicked = TRUE]
                      ELSE SearchFrom(lines, k + 1, query, cfg,
                               [acc EXCEPT
                                   !.results = Append(@, hl.text),
                                   !.found_indexes = PushIndex(@, k - 1),
                                   !.scanned_lines = scanned,
                                   !.matched_words = @ + hl.hits])
             ELSE SearchFrom(lines, k + 1, query, cfg,
                      [acc EXCEPT !.scanned_lines = scanned])

search(text, cfg) ==
    SearchFrom(StrLines(text), 1,
               conditional_lowercase(cfg.query, cfg.ignore_case), cfg, NoSearch)

\* ------------------------------------------------------------------ pager
\* the footer's divisions by page_height
DivisionByZero(ph) == ph = 0

NoFrame ==
    [sep |-> 0, body |-> <<>>,
     footer |-> [row |-> 0, page |-> 0, pages |-> 0, from |-> 0, to |-> 0, total |-> 0]]

\* faulty variant: the footer's upper end is not clamped to the total
RenderPageFooterUnclamped(results, indexes, cfg, offset, ph, w, total_lines) ==
    LET shown == {i \in offset..(offset + ph - 1) : i < total_lines}
        n     == Cardinality(shown)
    IN  [sep  |-> w,
         body |-> [d \in 1..n |->
                     [row   |-> (d - 1) + 3,
                      idx   |-> offset + d - 1,
                      badge |-> IF cfg.line_number
                                THEN indexes[offset + d] + 1 ELSE -1,
                      text  |-> results[offset + d]]],
         footer |-> [row   |-> ph + 3,
                     page  |-> (offset \div ph) + 1,
                     pages |-> (total_lines + ph - 1) \div ph,
                     from  |-> offset + 1,
                     to    |-> offset + ph,
                     total |-> total_lines]]

\* faulty variant: the page count is rounded down
RenderPageFloorPages(results, indexes, cfg, offset, ph, w, total_lines) ==
    LET shown == {i \in offset..(offset + ph - 1) : i < total_lines}
        n     == Cardinality(shown)
    IN  [sep  |-> w,
         body |-> [d \in 1..n |->
                     [row   |-> (d - 1) + 3,
                      idx   |-> offset + d - 1,
                      badge |-> IF cfg.line_number
                                THEN indexes[offset + d] + 1 ELSE -1,
                      text  |-> results[offset + d]]],
         footer |-> [row   |-> ph + 3,
                     page  |-> (offset \div ph) + 1,
                     pages |-> total_lines \div ph,
                     from  |-> offset + 1,
                     to    |-> Min(offset + ph, total_lines),
                     total |-> total_lines]]

\* render_page: separator of width dashes on row 2, the visible entries from
\* row 3 on, the footer on row page_height + 3.  Requires page_height > 0.
render_page(results, indexes, cfg, offset, ph, w, total_lines) ==
    LET shown == {i \in offset..(offset + ph - 1) : i < total_lines}
        n     == Cardinality(shown)
    IN  [sep  |-> w,
         body |-> [d \in 1..n |->
                     [row   |-> (d - 1) + 3,
                      idx   |-> offset + d - 1,
                      badge |-> IF cfg.line_number
                                THEN indexes[offset + d] + 1 ELSE -1,
                      text  |-> results[offset + d]]],
         footer |-> [row   |-> ph + 3,
                     page  |-> (offset \div ph) + 1,
                     pages |-> (total_lines + ph - 1) \div ph,
                     from  |-> offset + 1,
                     to    |-> Min(offset + ph, total_lines),
                     total |-> total_lines]]

ExitKeys == {"Esc", "CtrlC"}
UpKeys == {"Up", "k"}
DownKeys == {"Down", "j", "Enter"}
PageDownKeys == {"PageDown", "Space"}
\* a key with no arm of its own and a non-key event
OtherEvents == {"x", "Mouse"}
LoopEvents == UpKeys \cup DownKeys \cup PageDownKeys \cup {"PageUp", "Home", "End"}
                  \cup OtherEvents

ScrollUp(offset) == IF offset > 0 THEN offset - 1 ELSE offset

\* faulty variant: scrolls down whenever any entry lies below the first visible one
ScrollDownToLast(offset, ph, total_lines) ==
    IF offset + 1 < total_lines THEN offset + 1 ELSE offset

ScrollDown(offset, ph, total_lines) ==
    IF offset + ph < total_lines THEN offset + 1 ELSE offset

PageUp(offset, ph) == SaturatingSub(offset, ph)

\* faulty variant: the page step is not clamped
PageDownUnclamped(offset, ph, total_lines) == offset + ph

PageDown(offset, ph, total_lines) ==
    Min(offset + ph, SaturatingSub(total_lines, ph))

\* faulty variant: End puts the last entry on the first row
JumpEndLast(ph, total_lines) == SaturatingSub(total_lines, 1)

JumpEnd(ph, total_lines) == SaturatingSub(total_lines, ph)

\* faulty variant: an event with no arm of its own scrolls down
HandleEventOtherScrolls(e, offset, ph, total_lines) ==
    IF e \in UpKeys THEN ScrollUp(offset)
    ELSE IF e = "PageUp" THEN PageUp(offset, ph)
    ELSE IF e \in PageDownKeys THEN PageDown(offset, ph, total_lines)
    ELSE IF e = "Home" THEN 0
    ELSE IF e = "End" THEN JumpEnd(ph, total_lines)
    ELSE ScrollDown(offset, ph, total_lines)

\* the match arms of the event loop other than break
HandleEvent(e, offset, ph, total_lines) ==
    IF e \in UpKeys THEN ScrollUp(offset)
    ELSE IF e \in DownKeys THEN ScrollDown(offset, ph, total_lines)
    ELSE IF e = "PageUp" THEN PageUp(offset, ph)
    ELSE IF e \in PageDownKeys THEN PageDown(offset, ph, total_lines)
    ELSE IF e = "Home" THEN 0
    ELSE IF e = "End" THEN JumpEnd(ph, total_lines)
    ELSE offset

\* faulty variant: the guards are released only on the success path
DropScreenLeak(t) == t

\* the value bound to screen goes out of scope: RawTerminal's drop restores
\* the saved termios, AlternateScreen's drop switches back to the main screen
DropScreen(t) == [t EXCEPT !.raw = FALSE, !.alt = FALSE]

total_lines == Len(sr.results)

\* the operations ops follow those of t; the last two are kept
Log(t, ops) ==
    LET all == t \o ops
    IN  IF Len(all) > 2 THEN SubSeq(all, Len(all) - 1, Len(all)) ELSE all

\* ------------------------------------------------------------------ inputs
\* n lines, all "a" or alternately "A" and "a", each ended by a newline
RECURSIVE FileOf(_, _)
FileOf(n, alternate) ==
    IF n = 0 THEN <<>>
    ELSE FileOf(n - 1, alternate)
         \o <<IF alternate /\ n % 2 = 1 THEN "A" ELSE "a", "NL">>

Files == {FileOf(n, alt) : n \in 0..MaxLines, alt \in BOOLEAN}

Texts == {EncodeAll(cs) : cs \in CharSeqs(Chars, MaxLen)}
Queries == {EncodeAll(cs) : cs \in CharSeqs(QueryChars, MaxQueryLen)}

NoConfig ==
    [query |-> <<>>, ignore_case |-> FALSE, no_color |-> FALSE,
     line_number |-> FALSE, stats |-> FALSE]

InitCommon ==
    /\ exitCode = -1
    /\ stderr = <<>>
    /\ io = <<>>
    /\ width = 0
    /\ sr = NoSearch
    /\ out = <<>>
    /\ term = [raw |-> FALSE, alt |-> FALSE, cursor |-> "shown"]
    /\ page_height = 0
    /\ current_offset = 0
    /\ frame = NoFrame
    /\ lastEvent = "none"
    /\ exitPath = "none"
    /\ downRun = -1

\* run(config) is about to start
Init ==
    /\ contents \in Files
    /\ config \in [query : {<<"a">>}, ignore_case : BOOLEAN, no_color : BOOLEAN,
                   line_number : BOOLEAN, stats : BOOLEAN]
    /\ args = <<>>
    /\ env = {}
    /\ pc = "run"
    /\ InitCommon

\* search(contents, &config) is about to be called, as the unit tests call it
InitSearch ==
    /\ contents \in Texts
    /\ config \in [query : Queries, ignore_case : BOOLEAN, no_color : BOOLEAN,
                   line_number : {FALSE}, stats : {FALSE}]
    /\ args = <<>>
    /\ env = {}
    /\ pc = "call_search"
    /\ InitCommon

\* ------------------------------------------------------------------ search, run
SearchCall ==
    /\ io' = io
    /\ pc = "call_search"
    /\ sr' = search(contents, config)
    /\ pc' = IF sr'.panicked THEN "panicked" ELSE "search_returned"
    /\ UNCHANGED <<mainVars, contents, config, width, out, term, page_height,
                   current_offset, frame, lastEvent, exitPath, downRun>>

\* fs::read_to_string(..)? fails
RunReadFail ==
    /\ io' = io
    /\ pc = "run"
    /\ pc' = "returned"
    /\ exitPath' = "read_err"
    /\ UNCHANGED <<mainVars, contents, config, width, sr, out, term, page_height,
                   current_offset, frame, lastEvent, downRun>>

StatsLine(r) ==
    [kind |-> "stats", lines |-> Len(r.results), words |-> r.matched_words,
     scanned |-> r.scanned_lines]

\* faulty variant: the stats line is printed whether or not it was asked for
PrintStatsAlways(o, cfg, r) == Append(o, StatsLine(r))

\* if config.stats { println!(..) }
PrintStats(o, cfg, r) == IF cfg.stats THEN Append(o, StatsLine(r)) ELSE o

\* the file is read, search runs, the stats line is printed when asked for
RunSearch ==
    /\ io' = io
    /\ pc = "run"
    /\ sr' = search(contents, config)
    /\ IF sr'.panicked
       THEN /\ pc' = "panicked"
            /\ exitPath' = "search_panic"
            /\ out' = out
       ELSE /\ pc' = "searched"
            /\ exitPath' = exitPath
            /\ out' = PrintStats(out, config, sr')
    /\ UNCHANGED <<mainVars, contents, config, width, term, page_height,
                   current_offset, frame, lastEvent, downRun>>

\* faulty variant: the emptiness test is lost
IsEmptyNever(res) == FALSE

\* faulty variant: a single result is treated like none
IsEmptyOrSingle(res) == Len(res) <= 1

\* res.is_empty()
IsEmpty(res) == res = <<>>

RunNoResults ==
    /\ io' = io
    /\ pc = "searched"
    /\ IsEmpty(sr.results)
    /\ out' = Append(out, [kind |-> "no_results"])
    /\ pc' = "returned"
    /\ exitPath' = "no_results"
    /\ UNCHANGED <<mainVars, contents, config, width, sr, term, page_height,
                   current_offset, frame, lastEvent, downRun>>

\* ------------------------------------------------------------------ paginate
\* run calls paginate; stdout().into_raw_mode() succeeds
PgIntoRawMode ==
    /\ io' = io
    /\ pc = "searched"
    /\ ~IsEmpty(sr.results)
    /\ term' = [term EXCEPT !.raw = TRUE]
    /\ pc' = "pg_raw"
    /\ UNCHANGED <<mainVars, contents, config, width, sr, out, page_height,
                   current_offset, frame, lastEvent, exitPath, downRun>>

PgIntoRawModeFail ==
    /\ io' = io
    /\ pc = "searched"
    /\ ~IsEmpty(sr.results)
    /\ pc' = "returned"
    /\ exitPath' = "raw_err"
    /\ UNCHANGED <<mainVars, contents, config, width, sr, out, term, page_height,
                   current_offset, frame, lastEvent, downRun>>

PgIntoAlternateScreen ==
    /\ io' = io
    /\ pc = "pg_raw"
    /\ term' = [term EXCEPT !.alt = TRUE]
    /\ pc' = "pg_screen"
    /\ UNCHANGED <<mainVars, contents, config, width, sr, out, page_height,
                   current_offset, frame, lastEvent, exitPath, downRun>>

\* the RawTerminal moved into into_alternate_screen is dropped there
PgIntoAlternateScreenFail ==
    /\ io' = io
    /\ pc = "pg_raw"
    /\ term' = DropScreen(term)
    /\ pc' = "returned"
    /\ exitPath' = "alt_err"
    /\ UNCHANGED <<mainVars, contents, config, width, sr, out, page_height,
                   current_offset, frame, lastEvent, downRun>>

\* terminal_size()? succeeds; page_height and current_offset are set
PgTerminalSize ==
    /\ io' = io
    /\ pc = "pg_screen"
    /\ \E h \in 0..MaxHeight, w \in 1..MaxWidth :
          /\ width' = w
          /\ page_height' = SaturatingSub(h, 3)
    /\ current_offset' = 0
    /\ downRun' = 0
    /\ pc' = "pg_first_render"
    /\ UNCHANGED <<mainVars, contents, config, sr, out, term, frame, lastEvent, exitPath>>

PgTerminalSizeFail ==
    /\ io' = io
    /\ pc = "pg_screen"
    /\ term' = DropScreen(term)
    /\ pc' = "returned"
    /\ exitPath' = "size_err"
    /\ UNCHANGED <<mainVars, contents, config, width, sr, out, page_height,
                   current_offset, frame, lastEvent, downRun>>

Render(offset) ==
    render_page(sr.results, sr.found_indexes, config, offset, page_height,
                width, total_lines)

\* the initial render_page call completes
PgFirstRender ==
    /\ io' = Log(io, <<"render">>)
    /\ pc = "pg_first_render"
    /\ ~DivisionByZero(page_height)
    /\ frame' = Render(current_offset)
    /\ term' = [term EXCEPT !.cursor = "hidden"]
    /\ pc' = "wait"
    /\ UNCHANGED <<mainVars, contents, config, width, sr, out, page_height,
                   current_offset, lastEvent, exitPath, downRun>>

\* the footer's division panics; unwinding drops screen, an aborting build
\* does not
PgFirstRenderPanic ==
    /\ io' = Log(io, <<"render_failed">>)
    /\ pc = "pg_first_render"
    /\ DivisionByZero(page_height)
    /\ \E unwinds \in BOOLEAN :
          term' = [(IF unwinds THEN DropScreen(term) ELSE term)
                      EXCEPT !.cursor = "hidden"]
    /\ pc' = "panicked"
    /\ exitPath' = "render_panic"
    /\ UNCHANGED <<mainVars, contents, config, width, sr, out, page_height,
                   current_offset, frame, lastEvent, downRun>>

\* a write or the flush of the initial render fails; the hide-cursor
\* sequence may or may not have reached the terminal
PgFirstRenderFail ==
    /\ io' = Log(io, <<"render_failed">>)
    /\ pc = "pg_first_render"
    /\ \E hid \in BOOLEAN :
          term' = [DropScreen(term) EXCEPT
                      !.cursor = IF hid THEN "hidden" ELSE @]
    /\ pc' = "returned"
    /\ exitPath' = "render_err"
    /\ UNCHANGED <<mainVars, contents, config, width, sr, out, page_height,
                   current_offset, frame, lastEvent, downRun>>

NextDownRun(e, offset) ==
    IF e \in DownKeys
    THEN (IF downRun >= 0 /\ downRun < MaxDownRun THEN downRun + 1 ELSE -1)
    ELSE (IF offset = 0 THEN 0 ELSE -1)

\* faulty variant: an event with no arm of its own ends the loop
PgEventQuitOnOther ==
    /\ io' = Log(io, <<"read", "render">>)
    /\ pc = "wait"
    /\ \E e \in LoopEvents :
          /\ lastEvent' = e
          /\ current_offset' = HandleEvent(e, current_offset, page_height, total_lines)
          /\ downRun' = NextDownRun(e, current_offset')
          /\ pc' = IF e \in OtherEvents THEN "returned" ELSE "wait"
          /\ exitPath' = IF e \in OtherEvents THEN "exit_key" ELSE exitPath
          /\ term' = IF e \in OtherEvents
                     THEN [DropScreen(term) EXCEPT !.cursor = "shown"]
                     ELSE [term EXCEPT !.cursor = "hidden"]
    /\ frame' = Render(current_offset')
    /\ UNCHANGED <<mainVars, contents, config, width, sr, out, page_height>>

\* faulty variant: the page is not rendered again after an event with no arm
PgEventSkipsRender ==
    /\ pc = "wait"
    /\ \E e \in LoopEvents :
          /\ lastEvent' = e
          /\ current_offset' = HandleEvent(e, current_offset, page_height, total_lines)
          /\ downRun' = NextDownRun(e, current_offset')
          /\ io' = Log(io, IF e \in OtherEvents THEN <<"read">> ELSE <<"read", "render">>)
    /\ frame' = Render(current_offset')
    /\ term' = [term EXCEPT !.cursor = "hidden"]
    /\ pc' = "wait"
    /\ UNCHANGED <<mainVars, contents, config, width, sr, out, page_height, exitPath>>

\* one iteration of the loop: an event is read, its arm runs, the page is
\* rendered again
PgEvent ==
    /\ io' = Log(io, <<"read", "render">>)
    /\ pc = "wait"
    /\ \E e \in LoopEvents :
          /\ lastEvent' = e
          /\ current_offset' = HandleEvent(e, current_offset, page_height, total_lines)
          /\ downRun' = NextDownRun(e, current_offset')
    /\ frame' = Render(current_offset')
    /\ term' = [term EXCEPT !.cursor = "hidden"]
    /\ pc' = "wait"
    /\ UNCHANGED <<mainVars, contents, config, width, sr, out, page_height, exitPath>>

\* one iteration whose render_page call fails
PgEventRenderFail ==
    /\ io' = Log(io, <<"read", "render_failed">>)
    /\ pc = "wait"
    /\ \E e \in LoopEvents :
          /\ lastEvent' = e
          /\ current_offset' = HandleEvent(e, current_offset, page_height, total_lines)
          /\ downRun' = NextDownRun(e, current_offset')
    /\ term' = [DropScreen(term) EXCEPT !.cursor = "hidden"]
    /\ pc' = "returned"
    /\ exitPath' = "render_err"
    /\ UNCHANGED <<mainVars, contents, config, width, sr, out, page_height, frame>>

\* Esc or Ctrl+C: break, then show the cursor and flush
PgExitKey ==
    /\ io' = Log(io, <<"read">>)
    /\ pc = "wait"
    /\ \E e \in ExitKeys : lastEvent' = e
    /\ \E ok \in BOOLEAN :
          /\ term' = [DropScreen(term) EXCEPT
                         !.cursor = IF ok THEN "shown" ELSE @]
          /\ exitPath' = IF ok THEN "exit_key" ELSE "exit_key_cursor_err"
    /\ pc' = "returned"
    /\ UNCHANGED <<mainVars, contents, config, width, sr, out, page_height,
                   current_offset, frame, downRun>>

\* evt? is an error
PgEventReadFail ==
    /\ io' = Log(io, <<"read_failed">>)
    /\ pc = "wait"
    /\ term' = DropScreen(term)
    /\ pc' = "returned"
    /\ exitPath' = "event_err"
    /\ UNCHANGED <<mainVars, contents, config, width, sr, out, page_height,
                   current_offset, frame, lastEvent, downRun>>

\* stdin.events() is exhausted: the for loop ends, the cursor is shown
PgEventsEnd ==
    /\ io' = Log(io, <<"end">>)
    /\ pc = "wait"
    /\ \E ok \in BOOLEAN :
          /\ term' = [DropScreen(term) EXCEPT
                         !.cursor = IF ok THEN "shown" ELSE @]
          /\ exitPath' = IF ok THEN "eof" ELSE "eof_cursor_err"
    /\ pc' = "returned"
    /\ UNCHANGED <<mainVars, contents, config, width, sr, out, page_height,
                   current_offset, frame, lastEvent, downRun>>

Next ==
    \/ RunReadFail
    \/ RunSearch
    \/ RunNoResults
    \/ PgIntoRawMode
    \/ PgIntoRawModeFail
    \/ PgIntoAlternateScreen
    \/ PgIntoAlternateScreenFail
    \/ PgTerminalSize
    \/ PgTerminalSizeFail
    \/ PgFirstRender
    \/ PgFirstRenderPanic
    \/ PgFirstRenderFail
    \/ PgEvent
    \/ PgEventRenderFail
    \/ PgExitKey
    \/ PgEventReadFail
    \/ PgEventsEnd

Spec == Init /\ [][Next]_vars

NextSearch == SearchCall

SearchSpec == InitSearch /\ [][NextSearch]_vars

\* ------------------------------------------------------------------ main, Config::build
\* command-line words are sequences of one-byte characters
FlagIgnoreCase == <<"i", "g", "n", "o", "r", "e", "-", "c", "a", "s", "e">>
FlagNoColor == <<"n", "o", "-", "c", "o", "l", "o", "r">>
FlagLineNumber == <<"l", "i", "n", "e", "-", "n", "u", "m", "b", "e", "r">>
FlagStats == <<"s", "t", "a", "t", "s">>

\* allowed_flags, in the order of the array
AllowedFlags == <<FlagIgnoreCase, FlagNoColor, FlagLineNumber, FlagStats>>

IsAllowed(flag) == \E k \in 1..Len(AllowedFlags) : AllowedFlags[k] = flag

\* arg.strip_prefix("--") is Some
HasDashes(arg) == Len(arg) >= 2 /\ arg[1] = "-" /\ arg[2] = "-"

\* the flag that strip_prefix("--") leaves
FlagName(arg) == SubSeq(arg, 3, Len(arg))

\* one row of the edit-distance table, filled column by column: prev is the
\* row of the prefix before character c, row the columns filled so far;
\* column j of a row is its element j + 1
RECURSIVE LevRow(_, _, _, _)
LevRow(prev, c, b, row) ==
    LET j == Len(row)
    IN  IF j > Len(b) THEN row
        ELSE LevRow(prev, c, b,
                    Append(row, Min(Min(prev[j + 1] + 1, row[j] + 1),
                                    prev[j] + (IF b[j] = c THEN 0 ELSE 1))))

RECURSIVE LevRows(_, _, _, _)
LevRows(a, b, i, row) ==
    IF i > Len(a) THEN row[Len(b) + 1]
    ELSE LevRows(a, b, i + 1, LevRow(row, a[i], b, <<row[1] + 1>>))

\* strsim::levenshtein
Levenshtein(a, b) == LevRows(a, b, 1, [j \in 1..(Len(b) + 1) |-> j - 1])

\* faulty variant: the known flag farthest from the given one
SuggestFarthest(flag) ==
    LET d == [k \in 1..Len(AllowedFlags) |-> Levenshtein(flag, AllowedFlags[k])]
        best == CHOOSE k \in 1..Len(AllowedFlags) :
                    /\ \A j \in 1..Len(AllowedFlags) : d[k] >= d[j]
                    /\ \A j \in 1..(k - 1) : d[j] < d[k]
    IN  AllowedFlags[best]

\* allowed_flags.iter().min_by_key(|known| levenshtein(flag, known)): the
\* first of the flags at the least distance
Suggest(flag) ==
    LET d == [k \in 1..Len(AllowedFlags) |-> Levenshtein(flag, AllowedFlags[k])]
        best == CHOOSE k \in 1..Len(AllowedFlags) :
                    /\ \A j \in 1..Len(AllowedFlags) : d[k] <= d[j]
                    /\ \A j \in 1..(k - 1) : d[j] > d[k]
    IN  AllowedFlags[best]

\* String::to_uppercase of an environment variable's name
EnvUppercase(name) == IF name = "no_color" THEN "NO_COLOR" ELSE name

\* the loop over args[3..]: the first argument that is no known flag ends it
RECURSIVE ScanFlags(_, _, _)
ScanFlags(a, i, cli) ==
    IF i > Len(a) THEN [ok |-> TRUE, cli |-> cli]
    ELSE IF ~HasDashes(a[i])
    THEN [ok |-> FALSE, kind |-> "invalid_format", arg |-> a[i]]
    ELSE IF IsAllowed(FlagName(a[i]))
    THEN ScanFlags(a, i + 1, cli \cup {FlagName(a[i])})
    ELSE [ok |-> FALSE, kind |-> "unrecognized", flag |-> FlagName(a[i]),
          suggestion |-> Suggest(FlagName(a[i]))]

\* Config::build
build(a, e) ==
    IF Len(a) < 3 THEN [ok |-> FALSE, kind |-> "not_enough"]
    ELSE LET flags == {EnvUppercase(n) : n \in e}
             scan  == ScanFlags(a, 4, {})
         IN  IF ~scan.ok THEN scan
             ELSE [ok |-> TRUE,
                   config |->
                     [query       |-> a[2],
                      ignore_case |-> "IGNORE_CASE" \in flags \/ FlagIgnoreCase \in scan.cli,
                      no_color    |-> "NO_COLOR" \in flags \/ FlagNoColor \in scan.cli,
                      line_number |-> "LINE_NUMBER" \in flags \/ FlagLineNumber \in scan.cli,
                      stats       |-> "STATS" \in flags \/ FlagStats \in scan.cli]]

\* run's results that are Ok(())
OkPaths == {"no_results", "exit_key", "eof"}

\* faulty variant: the error of run is reported but the exit code is not set
RunExitCodeZero(path) == 0

\* process::exit(1) on Err, the end of main otherwise
RunExitCode(path) == IF path \in OkPaths THEN 0 ELSE 1

\* main up to the call of run: the arguments are printed, Config::build
\* runs, its error is reported and ends the process
MainBuild ==
    /\ pc = "main"
    /\ out' = Append(out, [kind |-> "args"])
    /\ LET b == build(args, env)
       IN  IF b.ok
           THEN /\ config' = b.config
                /\ pc' = "run"
                /\ UNCHANGED <<stderr, exitCode>>
           ELSE /\ stderr' = Append(stderr, [kind |-> "arg_error", err |-> b])
                /\ exitCode' = 1
                /\ pc' = "exited"
                /\ UNCHANGED config
    /\ UNCHANGED <<args, env, io, contents, width, sr, term, page_height,
                   current_offset, frame, lastEvent, exitPath, downRun>>

\* run has returned: its error is reported and main ends
MainExit ==
    /\ pc = "returned"
    /\ exitCode' = RunExitCode(exitPath)
    /\ stderr' = IF exitPath \in OkPaths THEN stderr
                 ELSE Append(stderr, [kind |-> "application_error"])
    /\ pc' = "exited"
    /\ UNCHANGED <<args, env, io, contents, config, width, sr, out, term,
                   page_height, current_offset, frame, lastEvent, exitPath, downRun>>

ProgramName == <<"m">>
QueryArg == <<"a">>
PathArg == <<"f">>

\* extra arguments: the four flags, a misspelt one, a bare "--", a flag
\* without its dashes
FlagArgs ==
    {<<"-", "-">> \o FlagIgnoreCase, <<"-", "-">> \o FlagNoColor,
     <<"-", "-">> \o FlagLineNumber, <<"-", "-">> \o FlagStats,
     <<"-", "-">> \o <<"l", "i", "n", "e", "-", "n", "u", "m", "b", "r">>,
     <<"-", "-">>, FlagStats}

ArgVectors ==
    {<<ProgramName>>, <<ProgramName, QueryArg>>}
        \cup {<<ProgramName, QueryArg, PathArg>> \o fl : fl \in CharSeqs(FlagArgs, MaxFlags)}

EnvNames == {"IGNORE_CASE", "no_color"}

\* the process is about to enter main
InitMain ==
    /\ args \in ArgVectors
    /\ env \in SUBSET EnvNames
    /\ contents \in {FileOf(0, FALSE), FileOf(1, FALSE)}
    /\ config = NoConfig
    /\ pc = "main"
    /\ InitCommon

NextMain == MainBuild \/ Next \/ MainExit

MainSpec == InitMain /\ [][NextMain]_vars

\* ------------------------------------------------------------------ properties
SourceLines == StrLines(contents)

\* whitespace runs collapsed to one space, leading and trailing ones removed
RECURSIVE Squeeze(_, _, _)
Squeeze(s, acc, gap) ==
    IF s = <<>> THEN acc
    ELSE IF Head(s) \in Whitespace THEN Squeeze(Tail(s), acc, acc # <<>>)
    ELSE Squeeze(Tail(s), (IF gap THEN Append(acc, " ") ELSE acc) \o <<Head(s)>>, FALSE)

IsMarkup(b) == b \in {"SGR_ON", "SGR_OFF"}
NotMarkup(b) == ~IsMarkup(b)
StripMarkup(s) == SelectSeq(s, NotMarkup)

\* q occurs in h at some byte offset
Occurs(h, q) ==
    \E p \in 0..Len(h) :
        /\ p + Len(q) <= Len(h)
        /\ \A j \in 1..Len(q) : h[p + j] = q[j]

Comparison(s) == IF config.ignore_case THEN ToLowercase(s) ELSE s

\* C1: in paginate, for every total and page_height, from offset 0 and after
\* any sequence of events, 0 <= current_offset <= max(0, total - page_height)
C1_OffsetClamped ==
    /\ 0 <= current_offset
    /\ current_offset <= Max(0, total_lines - page_height)

\* a page-down step was cut short at the last full window
C1_Witness ==
    /\ pc = "wait"
    /\ lastEvent \in PageDownKeys
    /\ current_offset = total_lines - page_height
    /\ current_offset % page_height # 0

\* C2: with page_height = 0 the footer's page arithmetic never divides by
\* zero: render_page completes
C2_RenderNeverDividesByZero ==
    ~(page_height = 0 /\ pc = "panicked" /\ exitPath = "render_panic")

\* C3: whenever paginate has returned, on any path, the terminal is out of
\* raw mode and on the main screen
C3_TerminalRestored ==
    pc = "returned" => ~term.raw /\ ~term.alt

\* paginate returned an error from inside the event loop
C3_Witness ==
    /\ pc = "returned"
    /\ exitPath \in {"event_err", "render_err"}
    /\ lastEvent # "none"

\* C4: search returns, and index i is among the returned indexes iff the
\* comparison form of line i contains the comparison form of the query
C4_MatchIffContains ==
    pc \in {"search_returned", "panicked"} =>
        /\ ~sr.panicked
        /\ \A i \in 0..(Len(SourceLines) - 1) :
              (\E k \in 1..Len(sr.found_indexes) : sr.found_indexes[k] = i)
                  <=> Occurs(Comparison(SourceLines[i + 1]), Comparison(config.query))
        /\ Len(sr.results)
              = Cardinality({i \in 1..Len(SourceLines) :
                    Occurs(Comparison(SourceLines[i]), Comparison(config.query))})

\* C5: with an empty result sequence run prints the no-results message and
\* returns success; raw mode is never entered, nothing is rendered, no event
\* is read
C5_NoPagerWithoutResults ==
    (pc # "run" /\ exitPath # "read_err" /\ Len(sr.results) = 0) =>
        /\ pc \in {"searched", "returned"}
        /\ ~term.raw /\ ~term.alt
        /\ frame = NoFrame
        /\ lastEvent = "none"
        /\ pc = "returned" =>
              /\ exitPath = "no_results"
              /\ out[Len(out)].kind = "no_results"

\* a file with lines, none of which matches, was searched and run returned
C5_Witness ==
    /\ pc = "returned"
    /\ exitPath = "no_results"
    /\ Len(SourceLines) > 0

PaginateExits ==
    {"raw_err", "alt_err", "size_err", "render_err", "event_err", "exit_key",
     "exit_key_cursor_err", "eof", "eof_cursor_err"}

C7_OnlyExitKeysEnd ==
    [][(pc = "wait" /\ pc' # "wait") =>
           (lastEvent' \in ExitKeys /\ exitPath' = "exit_key")]_vars

\* C7 amended: the pager leaves the Active state on Esc or Ctrl+C, when the
\* event stream ends, on an event-read error or on a render error, and then
\* paginate returns; any other event followed by a completed render leaves
\* it Active
C7_ActiveLeftOnlyBy ==
    [][/\ (pc = "wait" /\ pc' # "wait") =>
             /\ pc' = "returned"
             /\ \/ lastEvent' \in ExitKeys
                     /\ exitPath' \in {"exit_key", "exit_key_cursor_err"}
                \/ lastEvent' = lastEvent
                     /\ exitPath' \in {"eof", "eof_cursor_err", "event_err"}
                \/ lastEvent' \in LoopEvents /\ exitPath' = "render_err"
       /\ (pc = "wait" /\ lastEvent' \in LoopEvents /\ exitPath' = "none") =>
             pc' = "wait"]_vars

\* the event stream ended after an unrecognised event and paginate returned
C7_Witness ==
    /\ pc = "returned"
    /\ exitPath = "eof"
    /\ lastEvent \in OtherEvents

\* C8: Down / j / Enter adds one to the offset when offset + page_height <
\* total and leaves it otherwise; Up / k subtracts one above 0; so from
\* offset 0 with total 10 and page_height 4 three Downs give offset 3
C8_OneRowSteps ==
    /\ [][(pc = "wait" /\ pc' = "wait") =>
              /\ lastEvent' \in DownKeys =>
                    current_offset' =
                        IF current_offset + page_height < total_lines
                        THEN current_offset + 1 ELSE current_offset
              /\ lastEvent' \in UpKeys =>
                    current_offset' =
                        IF current_offset > 0 THEN current_offset - 1 ELSE 0]_vars
    /\ []((pc = "wait" /\ downRun >= 0) =>
              current_offset = Min(downRun, Max(0, total_lines - page_height)))
    /\ []((pc = "wait" /\ total_lines = 10 /\ page_height = 4 /\ downRun = 3) =>
              current_offset = 3)

\* three Downs in a row from the top of ten results on a page of four
C8_Witness ==
    /\ pc = "wait"
    /\ total_lines = 10
    /\ page_height = 4
    /\ downRun = 3
    /\ lastEvent \in DownKeys

IsSingleSpaced(s) ==
    /\ s # <<>> => (s[1] \notin Whitespace /\ s[Len(s)] \notin Whitespace)
    /\ \A i \in 1..(Len(s) - 1) : ~(s[i] \in Whitespace /\ s[i + 1] \in Whitespace)

\* C9: with no_color the display text of a matching line has no markup and
\* is the original line's tokens joined by single spaces, case preserved;
\* for a single-spaced line it is the line itself
C9_PlainDisplayText ==
    (pc = "search_returned" /\ config.no_color) =>
        \A k \in 1..Len(sr.results) :
            /\ k <= Len(sr.found_indexes)
            /\ sr.found_indexes[k] \in 0..(Len(SourceLines) - 1)
            /\ LET line == SourceLines[sr.found_indexes[k] + 1]
               IN  /\ \A j \in 1..Len(sr.results[k]) : ~IsMarkup(sr.results[k][j])
                   /\ sr.results[k] = Squeeze(line, <<>>, FALSE)
                   /\ IsSingleSpaced(line) => sr.results[k] = line

\* a case-insensitive match whose display text keeps an upper-case letter
\* and differs from the line in whitespace only
C9_Witness ==
    /\ pc = "search_returned"
    /\ config.no_color
    /\ config.ignore_case
    /\ Len(sr.results) >= 1
    /\ sr.results[1] # ToLowercase(sr.results[1])
    /\ sr.results[1] # SourceLines[sr.found_indexes[1] + 1]

\* C10: the returned indexes are strictly increasing, as many as the display
\* lines, and the k-th is the 0-based number of the line the k-th display
\* line was made from
C10_IndexesOrdered ==
    pc = "search_returned" =>
        /\ Len(sr.found_indexes) = Len(sr.results)
        /\ \A k \in 1..(Len(sr.found_indexes) - 1) :
              sr.found_indexes[k] < sr.found_indexes[k + 1]
        /\ \A k \in 1..Len(sr.found_indexes) :
              /\ sr.found_indexes[k] \in 0..(Len(SourceLines) - 1)
              /\ Occurs(Comparison(SourceLines[sr.found_indexes[k] + 1]),
                        Comparison(config.query))
              /\ StripMarkup(sr.results[k])
                    = Squeeze(SourceLines[sr.found_indexes[k] + 1], <<>>, FALSE)

\* two matching lines after a line that does not match
C10_Witness ==
    /\ pc = "search_returned"
    /\ Len(sr.found_indexes) >= 2
    /\ sr.found_indexes[1] > 0

\* the number of lines of a text: its newlines, and one more when bytes
\* follow the last newline
LineCount(s) ==
    Cardinality({i \in 1..Len(s) : s[i] = "NL"})
        + (IF s # <<>> /\ s[Len(s)] # "NL" THEN 1 ELSE 0)

\* C11: lines_scanned is the number of lines of the contents, matching or
\* not, and there are as many indexes as results; a query that matches no
\* line gives no result, no index and lines_scanned = the line count
C11_LinesScanned ==
    pc = "search_returned" =>
        /\ sr.scanned_lines = LineCount(contents)
        /\ Len(sr.found_indexes) = Len(sr.results)
        /\ (\A i \in 1..Len(SourceLines) :
               ~Occurs(Comparison(SourceLines[i]), Comparison(config.query)))
              => /\ sr.results = <<>>
                 /\ sr.found_indexes = <<>>
                 /\ sr.scanned_lines = Len(SourceLines)

\* several lines were scanned and none matched
C11_Witness ==
    /\ pc = "search_returned"
    /\ sr.results = <<>>
    /\ sr.scanned_lines >= 2

StatsPrinted == {i \in 1..Len(out) : out[i].kind = "stats"}

\* C12: with stats enabled run prints the stats line exactly once, after
\* the search and before the no-results message and before the pager's
\* first render; with stats disabled it prints none
C12_StatsOnceFirst ==
    LET searched == pc # "run" /\ exitPath \notin {"read_err", "search_panic"}
    IN  /\ ~config.stats => StatsPrinted = {}
        /\ (config.stats /\ ~searched) => StatsPrinted = {}
        /\ (config.stats /\ searched) =>
              /\ Cardinality(StatsPrinted) = 1
              /\ out[1] = [kind |-> "stats", lines |-> Len(sr.results),
                           words |-> sr.matched_words, scanned |-> sr.scanned_lines]
        /\ (config.stats /\ (term.raw \/ frame # NoFrame \/ io # <<>>)) =>
              StatsPrinted # {}

\* the stats line was printed and then the no-results message
C12_Witness ==
    /\ config.stats
    /\ pc = "returned"
    /\ exitPath = "no_results"
    /\ Len(out) = 2
    /\ out[1].kind = "stats"
    /\ out[2].kind = "no_results"

\* an extra argument that is not one of the four flags with its dashes
IsOffending(arg) == ~(HasDashes(arg) /\ IsAllowed(FlagName(arg)))

ArgumentError(a) == Len(a) < 3 \/ \E i \in 4..Len(a) : IsOffending(a[i])

\* C13: an argument error ends the process with a non-zero exit code after
\* a diagnostic on the error stream, before the file is read or scanned; a
\* file-read failure ends it non-zero without a search; a run that returns
\* Ok, also with zero matches, exits zero
C13_ExitCodes ==
    /\ (pc # "main" /\ ArgumentError(args)) =>
          /\ pc = "exited"
          /\ exitCode = 1
          /\ Len(stderr) = 1 /\ stderr[1].kind = "arg_error"
          /\ exitPath = "none" /\ sr = NoSearch /\ config = NoConfig
    /\ (pc # "main" /\ ~ArgumentError(args)) => stderr \in {<<>>, <<[kind |-> "application_error"]>>}
    /\ exitPath = "read_err" =>
          /\ sr = NoSearch
          /\ pc = "exited" => (exitCode = 1 /\ stderr = <<[kind |-> "application_error"]>>)
    /\ (pc = "exited" /\ exitPath \in {"no_results", "exit_key", "eof"}) =>
          (exitCode = 0 /\ stderr = <<>>)
    /\ pc # "exited" => exitCode = -1

\* a search without a match ended the process with exit code 0
C13_Witness ==
    /\ pc = "exited"
    /\ exitPath = "no_results"
    /\ exitCode = 0

\* s is a known flag at the least edit distance from flag
IsClosest(s, flag) ==
    /\ IsAllowed(s)
    /\ \A k \in 1..Len(AllowedFlags) :
          Levenshtein(flag, s) <= Levenshtein(flag, AllowedFlags[k])

LineNumbr == <<"l", "i", "n", "e", "-", "n", "u", "m", "b", "r">>

\* C14 as stated: for every extra argument that starts with "--" and is no
\* known flag, build returns an error naming a known flag closest to it
C14_EveryUnknownFlagNamed ==
    pc # "main" =>
        \A i \in 4..Len(args) :
            (HasDashes(args[i]) /\ ~IsAllowed(FlagName(args[i]))) =>
                /\ stderr # <<>>
                /\ stderr[1].kind = "arg_error"
                /\ stderr[1].err.kind = "unrecognized"
                /\ IsClosest(stderr[1].err.suggestion, FlagName(args[i]))

FirstOffending(a) ==
    CHOOSE i \in 4..Len(a) :
        IsOffending(a[i]) /\ \A j \in 4..(i - 1) : ~IsOffending(a[j])

\* C14 amended: build returns an error for the first extra argument that is
\* no known flag and looks at none after it; when that argument starts with
\* "--" the error names it and a known flag closest to it ("line-number"
\* for "--line-numbr"), otherwise it is the invalid-format error
C14_FirstOffendingReported ==
    (pc # "main" /\ Len(args) >= 3 /\ \E i \in 4..Len(args) : IsOffending(args[i])) =>
        /\ pc = "exited"
        /\ stderr # <<>>
        /\ stderr[1].kind = "arg_error"
        /\ LET e   == stderr[1].err
               arg == args[FirstOffending(args)]
           IN  IF HasDashes(arg)
               THEN /\ e.kind = "unrecognized"
                    /\ e.flag = FlagName(arg)
                    /\ IsClosest(e.suggestion, e.flag)
                    /\ e.flag = LineNumbr => e.suggestion = FlagLineNumber
               ELSE /\ e.kind = "invalid_format"
                    /\ e.arg = arg

\* a known flag was accepted and the misspelt one after it was reported
C14_Witness ==
    /\ pc = "exited"
    /\ Len(args) = 5
    /\ ~IsOffending(args[4])
    /\ stderr # <<>>
    /\ stderr[1].kind = "arg_error"
    /\ stderr[1].err.kind = "unrecognized"
    /\ stderr[1].err.flag = LineNumbr
    /\ stderr[1].err.suggestion = FlagLineNumber

Renders == {"render", "render_failed"}
Reads == {"read", "read_failed", "end"}

\* C15: the pager is a strict request/response loop: the initial state is
\* rendered before any event is read; every event that does not end the
\* loop is followed by one mutation and one render before the next read;
\* no render follows a render; no render follows Esc or Ctrl+C
C15_RequestResponse ==
    /\ pc \in {"run", "searched", "pg_raw", "pg_screen", "pg_first_render"} => io = <<>>
    /\ Len(io) = 1 => io[1] \in Renders
    /\ Len(io) = 2 =>
          /\ io[2] \in Renders => io[1] = "read"
          /\ io[2] \in Reads => io[1] = "render"
    /\ pc = "wait" =>
          /\ io # <<>>
          /\ io[Len(io)] = "render"
          /\ frame = Render(current_offset)
          /\ lastEvent = "none" => (io = <<"render">> /\ current_offset = 0)
    /\ (io # <<>> /\ io[Len(io)] = "read") =>
          (pc \in {"returned", "exited"} /\ lastEvent \in ExitKeys)
    /\ lastEvent \in ExitKeys => (pc \in {"returned", "exited"} /\ io = <<"render", "read">>)

\* the loop ran, scrolled, and Esc or Ctrl+C ended it without a render
C15_Witness ==
    /\ pc = "returned"
    /\ lastEvent \in ExitKeys
    /\ current_offset > 0
    /\ io = <<"render", "read">>

\* C16: a frame shows exactly the results offset .. min(offset +
\* page_height, total) - 1 in order, none beyond the total, and its footer
\* range offset + 1 .. min(offset + page_height, total) is the 1-based range
\* of the entries shown
C16_VisibleWindow ==
    pc = "wait" =>
        LET hi == Min(current_offset + page_height, total_lines)
            n  == Len(frame.body)
        IN  /\ total_lines >= 1 /\ page_height >= 1
            /\ n = hi - current_offset
            /\ n >= 1
            /\ current_offset + n <= total_lines
            /\ \A d \in 1..n :
                  /\ frame.body[d].idx = current_offset + d - 1
                  /\ frame.body[d].idx < total_lines
                  /\ frame.body[d].text = sr.results[current_offset + d]
                  /\ frame.body[d].row = d + 2
            /\ frame.footer.from = current_offset + 1
            /\ frame.footer.to = hi
            /\ frame.footer.from = frame.body[1].idx + 1
            /\ frame.footer.to = frame.body[n].idx + 1
            /\ frame.footer.total = total_lines

\* a scrolled frame whose last row is the last result
C16_Witness ==
    /\ pc = "wait"
    /\ current_offset > 0
    /\ page_height >= 2
    /\ frame.footer.to = total_lines
    /\ frame.footer.from = current_offset + 1

\* C17: PageUp sets the offset to max(0, offset - page_height), PageDown
\* and Space to min(offset + page_height, max(0, total - page_height)),
\* Home to 0, End to max(0, total - page_height); Home and End are
\* idempotent, Down and PageDown do nothing right after End, Up and PageUp
\* nothing right after Home
C17_PageAndJump ==
    [][(pc = "wait" /\ pc' = "wait") =>
          LET e    == lastEvent'
              last == Max(0, total_lines - page_height)
          IN  /\ e = "PageUp" => current_offset' = Max(0, current_offset - page_height)
              /\ e \in PageDownKeys =>
                    current_offset' = Min(current_offset + page_height, last)
              /\ e = "Home" => current_offset' = 0
              /\ e = "End" => current_offset' = last
              /\ (lastEvent = "Home" /\ e \in UpKeys \cup {"PageUp", "Home"}) =>
                    current_offset' = current_offset
              /\ (lastEvent = "End" /\ e \in DownKeys \cup PageDownKeys \cup {"End"}) =>
                    current_offset' = current_offset]_vars

\* a page step that was clamped to the last full window
C17_Witness ==
    /\ pc = "wait"
    /\ lastEvent \in PageDownKeys
    /\ current_offset > 0
    /\ current_offset = total_lines - page_height
    /\ current_offset % page_height # 0

\* C18: an event of the pager changes at most the offset: results, indexes,
\* total, page_height and width stay as they are while the pager lives, and
\* an event with no arm of its own leaves the offset and the frame as they
\* were
C18_OnlyOffsetChanges ==
    [][/\ pc \in {"pg_raw", "pg_screen", "pg_first_render", "wait"} =>
             (sr' = sr /\ config' = config /\ contents' = contents)
       /\ pc \in {"pg_first_render", "wait"} =>
             (page_height' = page_height /\ width' = width)
       /\ (pc = "wait" /\ lastEvent' \in OtherEvents /\ lastEvent' # lastEvent) =>
             current_offset' = current_offset
       /\ (pc = "wait" /\ pc' = "wait" /\ lastEvent' \in OtherEvents) =>
             (current_offset' = current_offset /\ frame' = frame)]_vars

\* an event with no arm of its own arrived on a scrolled page
C18_Witness ==
    /\ pc = "wait"
    /\ lastEvent \in OtherEvents
    /\ current_offset > 0

\* C19: in every frame 1 <= current_page <= total_pages, with current_page
\* = offset / page_height + 1 and total_pages = ceil(total / page_height)
C19_PageNumbers ==
    frame # NoFrame =>
        /\ page_height >= 1 /\ total_lines >= 1
        /\ 1 <= frame.footer.page
        /\ frame.footer.page <= frame.footer.pages
        /\ frame.footer.pages =
              (total_lines \div page_height)
                  + (IF total_lines % page_height = 0 THEN 0 ELSE 1)
        /\ pc = "wait" => frame.footer.page = (current_offset \div page_height) + 1

\* the last of at least three pages of at least two rows is shown
C19_Witness ==
    /\ pc = "wait"
    /\ page_height >= 2
    /\ frame.footer.pages >= 3
    /\ frame.footer.page = frame.footer.pages

\* C20: every render hides the cursor, and whenever paginate returns after
\* a render, by Esc or Ctrl+C, by the end of the events, or by an error of
\* an event read or of a render, the cursor has been shown again
C20_CursorRestored ==
    /\ pc = "wait" => term.cursor = "hidden"
    /\ (pc = "returned" /\ frame # NoFrame
            /\ exitPath \in {"exit_key", "eof", "event_err", "render_err"}) =>
          term.cursor = "shown"

====
